---- MODULE Spec2Model ----
(***************************************************************************)
(* Model of scripts/evaluate.py: the confusion-matrix evaluator            *)
(* compute_tpr_fpr and the batch driver main (load, evaluate every         *)
(* submission, filter by FPR, sort by FPR, integrate with                  *)
(* sklearn.metrics.auc).                                                   *)
(*                                                                         *)
(* A volume is a sequence of voxel values (the array in flattening order). *)
(* The value 2 stands for every voxel value other than 0 and 1: the code   *)
(* only ever compares a voxel with 0 and with 1.  A rate (TPR, FPR, AUC)   *)
(* is an exact fraction <<numerator, denominator>> in lowest terms with a  *)
(* positive denominator; the rounding of float64 arithmetic is not         *)
(* modelled.                                                               *)
(***************************************************************************)
EXTENDS Integers, Sequences, FiniteSets, TLC

VARIABLES
    args_threshold,   \* args.threshold (--threshold)
    mask_file,        \* voxel data stored in --mask-file
    gt_file,          \* voxel data stored in --gt-file
    folder,           \* voxel data of the NIfTI files of --submission-folder, in os.listdir order
    pc,               \* position in main, or in compute_tpr_fpr
    mask_data, gt_data, pred_data,
    submission_files, \* the file list built at lines 56-59 (indices into folder)
    idx,              \* number of submission files the for loop has consumed
    gt, pred,         \* compute_tpr_fpr: the masked, flattened voxels
    tp, tn, fp, fn,   \* compute_tpr_fpr: the confusion-matrix counts
    tpr, fpr,
    tpr_list, fpr_list,
    sorted_fprs, sorted_tprs,
    roc_auc,
    outcome           \* "running", "returned", or the exception that ended the run

vars == <<args_threshold, mask_file, gt_file, folder, pc, mask_data, gt_data,
          pred_data, submission_files, idx, gt, pred, tp, tn, fp, fn, tpr, fpr,
          tpr_list, fpr_list, sorted_fprs, sorted_tprs, roc_auc, outcome>>

(***************************************************************************)
(* Bounds of the model.                                                    *)
(***************************************************************************)
\* largest volume (number of voxels) handed to compute_tpr_fpr on its own
MaxVox == 3
\* number of voxels of the volumes of a batch run
DriverVox == 5
\* largest number of NIfTI files in the submission folder
MaxFiles == 3

\* voxel values: 0, 1, and 2 for "anything else"
Vals == {0, 1, 2}

Volumes(n, values) == [1..n -> values]

SeqsUpTo(S, n) == UNION {[1..k -> S] : k \in 0..n}

(***************************************************************************)
(* Exact fractions.                                                        *)
(***************************************************************************)
Abs(a) == IF a < 0 THEN -a ELSE a

RECURSIVE GCD(_, _)
GCD(a, b) == IF b = 0 THEN a ELSE GCD(b, a % b)

\* n / d for d > 0, in lowest terms
Rat(n, d) == LET g == GCD(Abs(n), d) IN <<n \div g, d \div g>>

Zero == Rat(0, 1)
One == Rat(1, 1)

RatAdd(a, b) == Rat(a[1] * b[2] + b[1] * a[2], a[2] * b[2])
RatSub(a, b) == Rat(a[1] * b[2] - b[1] * a[2], a[2] * b[2])
RatMul(a, b) == Rat(a[1] * b[1], a[2] * b[2])
RatHalf(a) == Rat(a[1], 2 * a[2])
RatNeg(a) == <<-a[1], a[2]>>
RatLt(a, b) == a[1] * b[2] < b[1] * a[2]
RatLeq(a, b) == a[1] * b[2] <= b[1] * a[2]

(***************************************************************************)
(* compute_tpr_fpr (lines 15-38).                                          *)
(***************************************************************************)
\* a selection that also takes the voxels whose mask value is neither 0 nor 1
mask_indices_nonzero(mask) == [k \in DOMAIN mask |-> mask[k] # 0]

\* line 22: mask_data == 1, a boolean array of the mask's shape
mask_indices(mask) == [k \in DOMAIN mask |-> mask[k] = 1]

\* lines 25-26: data[mask_indices].flatten(), the selected voxels in array order
RECURSIVE BoolIndexFrom(_, _, _)
BoolIndexFrom(data, sel, k) ==
    IF k > Len(data) THEN <<>>
    ELSE (IF sel[k] THEN <<data[k]>> ELSE <<>>) \o BoolIndexFrom(data, sel, k + 1)

BoolIndex(data, sel) == BoolIndexFrom(data, sel, 1)

\* the voxels of (p, g) that a comparison pair selects: (p == a) & (g == b)
Both(p, g, a, b) == {k \in DOMAIN p : p[k] = a /\ g[k] = b}

\* a false-positive count that forgets the ground-truth test
FPVoxelsAnyGt(p, g) == {k \in DOMAIN p : p[k] = 1}

\* a true-negative count that takes every value other than 1 for a 0
TNVoxelsNotOne(p, g) == {k \in DOMAIN p : p[k] # 1 /\ g[k] # 1}

TPVoxels(p, g) == Both(p, g, 1, 1)   \* line 29
TNVoxels(p, g) == Both(p, g, 0, 0)   \* line 30
FPVoxels(p, g) == Both(p, g, 1, 0)   \* line 31
FNVoxels(p, g) == Both(p, g, 0, 1)   \* line 32

\* np.sum of a boolean array
NpSum(S) == Cardinality(S)

\* the ratio turned upside down
tpr_inverted(ntp, nfn) == IF ntp > 0 THEN Rat(ntp + nfn, ntp) ELSE Zero

\* the guard's fallback set to 1 instead of 0
fpr_guard_one(nfp, ntn) == IF (nfp + ntn) > 0 THEN Rat(nfp, nfp + ntn) ELSE One

\* line 35
tpr_of(ntp, nfn) == IF (ntp + nfn) > 0 THEN Rat(ntp, ntp + nfn) ELSE Zero

\* line 36
fpr_of(nfp, ntn) == IF (nfp + ntn) > 0 THEN Rat(nfp, nfp + ntn) ELSE Zero

\* the whole call: <<tpr, fpr>> and the locals it went through
compute_tpr_fpr(g_data, p_data, m_data) ==
    LET sel == mask_indices(m_data)
        g == BoolIndex(g_data, sel)
        p == BoolIndex(p_data, sel)
        ntp == NpSum(TPVoxels(p, g))
        ntn == NpSum(TNVoxels(p, g))
        nfp == NpSum(FPVoxels(p, g))
        nfn == NpSum(FNVoxels(p, g))
    IN  [gt |-> g, pred |-> p, tp |-> ntp, tn |-> ntn, fp |-> nfp, fn |-> nfn,
         tpr |-> tpr_of(ntp, nfn), fpr |-> fpr_of(nfp, ntn)]

(***************************************************************************)
(* compute_tpr_fpr on its own, statement by statement.                     *)
(***************************************************************************)
\* --threshold default, line 47
DefaultThreshold == Rat(3, 10)

Idle ==
    /\ args_threshold = DefaultThreshold
    /\ mask_file = <<>> /\ gt_file = <<>> /\ folder = <<>>
    /\ submission_files = <<>> /\ idx = 0
    /\ tpr_list = <<>> /\ fpr_list = <<>>
    /\ sorted_fprs = <<>> /\ sorted_tprs = <<>>
    /\ roc_auc = Zero /\ outcome = "running"

NoCounts ==
    /\ gt = <<>> /\ pred = <<>>
    /\ tp = 0 /\ tn = 0 /\ fp = 0 /\ fn = 0
    /\ tpr = Zero /\ fpr = Zero

InitEval ==
    /\ Idle
    /\ NoCounts
    /\ \E n \in 0..MaxVox :
          /\ mask_data \in Volumes(n, Vals)
          /\ gt_data \in Volumes(n, Vals)
          /\ pred_data \in Volumes(n, Vals)
    /\ pc = "cm_mask"

driverVars == <<args_threshold, mask_file, gt_file, folder, submission_files, idx,
                tpr_list, fpr_list, sorted_fprs, sorted_tprs, roc_auc, outcome>>

\* lines 22-26
RestrictToMask ==
    /\ pc = "cm_mask"
    /\ gt' = BoolIndex(gt_data, mask_indices(mask_data))
    /\ pred' = BoolIndex(pred_data, mask_indices(mask_data))
    /\ pc' = "cm_count"
    /\ UNCHANGED <<mask_data, gt_data, pred_data, tp, tn, fp, fn, tpr, fpr>>
    /\ UNCHANGED driverVars

\* lines 29-32
CountConfusion ==
    /\ pc = "cm_count"
    /\ tp' = NpSum(TPVoxels(pred, gt))
    /\ tn' = NpSum(TNVoxels(pred, gt))
    /\ fp' = NpSum(FPVoxels(pred, gt))
    /\ fn' = NpSum(FNVoxels(pred, gt))
    /\ pc' = "cm_rates"
    /\ UNCHANGED <<mask_data, gt_data, pred_data, gt, pred, tpr, fpr>>
    /\ UNCHANGED driverVars

\* lines 35-38
ComputeRates ==
    /\ pc = "cm_rates"
    /\ tpr' = tpr_of(tp, fn)
    /\ fpr' = fpr_of(fp, tn)
    /\ pc' = "cm_return"
    /\ UNCHANGED <<mask_data, gt_data, pred_data, gt, pred, tp, tn, fp, fn>>
    /\ UNCHANGED driverVars

NextEval == RestrictToMask \/ CountConfusion \/ ComputeRates

SpecEval == InitEval /\ [][NextEval]_vars

(***************************************************************************)
(* main (lines 40-88).                                                     *)
(***************************************************************************)
\* load_nifti_data (lines 10-13): the file's voxel array; get_fdata yields
\* float64, which keeps every comparison of a voxel with 0 and with 1
load_nifti_data(file) == [k \in DOMAIN file |-> file[k]]

\* the literal of the test at line 71
FprCutoff == Rat(3, 10)

\* line 71: if fpr>0.3: continue
Discarded(f) == RatLt(FprCutoff, f)

\* zip(fpr_list, tpr_list), line 81
Zip(xs, ys) ==
    [k \in 1..(IF Len(xs) < Len(ys) THEN Len(xs) ELSE Len(ys)) |-> <<xs[k], ys[k]>>]

\* sorted(..., key=lambda x: x[0]) is stable: a point goes behind every point
\* already placed whose key is not greater
RECURSIVE InsertByKey(_, _)
InsertByKey(s, p) ==
    IF s = <<>> THEN <<p>>
    ELSE IF RatLt(p[1], Head(s)[1]) THEN <<p>> \o s
    ELSE <<Head(s)>> \o InsertByKey(Tail(s), p)

RECURSIVE SortedPrefix(_, _)
SortedPrefix(points, k) ==
    IF k = 0 THEN <<>> ELSE InsertByKey(SortedPrefix(points, k - 1), points[k])

\* the points left in recording order
sorted_not_at_all(points) == points

\* line 81
sorted_by_fpr(points) == SortedPrefix(points, Len(points))

\* the TPR column sorted by its own values, apart from the FPR column
tprs_sorted_alone(points) ==
    LET swapped == [k \in DOMAIN points |-> <<points[k][2], points[k][1]>>]
        s == SortedPrefix(swapped, Len(swapped))
    IN  [k \in DOMAIN s |-> s[k][1]]

\* line 82
fprs_of(points) == [k \in DOMAIN points |-> points[k][1]]

\* line 83
tprs_of(points) == [k \in DOMAIN points |-> points[k][2]]

\* np.diff(x)
NpDiff(x) == [k \in 1..(Len(x) - 1) |-> RatSub(x[k + 1], x[k])]

\* np.trapz(y, x): sum(diff(x) * (y[1:] + y[:-1]) / 2)
RECURSIVE TrapzFrom(_, _, _)
TrapzFrom(y, dx, k) ==
    IF k > Len(dx) THEN Zero
    ELSE RatAdd(RatMul(dx[k], RatHalf(RatAdd(y[k + 1], y[k]))), TrapzFrom(y, dx, k + 1))

NpTrapz(y, x) == TrapzFrom(y, NpDiff(x), 1)

\* an integration that answers 0 when it is given fewer than two points
auc_zero_when_short(x, y) ==
    IF Len(x) < 2 THEN [raised |-> FALSE, value |-> Zero]
    ELSE [raised |-> FALSE, value |-> NpTrapz(y, x)]

\* sklearn.metrics.auc(x, y), called at line 87: fewer than two points raise
\* ValueError, so does an x that is neither non-decreasing nor non-increasing;
\* a non-increasing x integrates with direction -1
auc(x, y) ==
    LET dx == NpDiff(x)
        falls == \E k \in DOMAIN dx : RatLt(dx[k], Zero)
        never_rises == \A k \in DOMAIN dx : RatLeq(dx[k], Zero)
    IN  IF Len(x) < 2 THEN [raised |-> TRUE, value |-> Zero]
        ELSE IF falls /\ ~never_rises THEN [raised |-> TRUE, value |-> Zero]
        ELSE IF falls THEN [raised |-> FALSE, value |-> RatNeg(NpTrapz(y, x))]
        ELSE [raised |-> FALSE, value |-> NpTrapz(y, x)]

(***************************************************************************)
(* The inputs of a batch run.                                              *)
(***************************************************************************)
BinaryVolumes == Volumes(DriverVox, {0, 1})

\* how many voxels a volume marks as positive
Positives(v) == Cardinality({k \in DOMAIN v : v[k] = 1})

\* the mask of a batch run selects the whole volume
DriverMasks == {[v \in 1..DriverVox |-> 1]}

\* ground truths with at most one positive voxel: a false positive rate in
\* (0, 0.3] needs four negative voxels
GroundTruths == {g \in BinaryVolumes : Positives(g) <= 1}

\* the predictions a folder may hold: those that mark at most one voxel, and
\* the one that marks every voxel
Submissions == {p \in BinaryVolumes : Positives(p) <= 1 \/ Positives(p) = DriverVox}

Thresholds == {Rat(1, 10), DefaultThreshold}

Init ==
    /\ args_threshold \in Thresholds
    /\ mask_file \in DriverMasks
    /\ gt_file \in GroundTruths
    /\ folder \in SeqsUpTo(Submissions, MaxFiles)
    /\ pc = "start"
    /\ mask_data = <<>> /\ gt_data = <<>> /\ pred_data = <<>>
    /\ submission_files = <<>> /\ idx = 0
    /\ NoCounts
    /\ tpr_list = <<>> /\ fpr_list = <<>>
    /\ sorted_fprs = <<>> /\ sorted_tprs = <<>>
    /\ roc_auc = Zero /\ outcome = "running"

inputVars == <<args_threshold, mask_file, gt_file, folder>>
evalVars == <<gt, pred, tp, tn, fp, fn, tpr, fpr>>
resultVars == <<sorted_fprs, sorted_tprs, roc_auc, outcome>>

\* lines 49-63: load the mask and the ground truth, list the folder, empty lists
LoadInputs ==
    /\ pc = "start"
    /\ mask_data' = load_nifti_data(mask_file)
    /\ gt_data' = load_nifti_data(gt_file)
    /\ submission_files' = [k \in 1..Len(folder) |-> k]
    /\ tpr_list' = <<>>
    /\ fpr_list' = <<>>
    /\ idx' = 0
    /\ pc' = "loop"
    /\ UNCHANGED <<pred_data>>
    /\ UNCHANGED inputVars /\ UNCHANGED evalVars /\ UNCHANGED resultVars

\* lines 65-76: one turn of the for loop, the call of compute_tpr_fpr included
Iterate ==
    /\ pc = "loop"
    /\ idx < Len(submission_files)
    /\ LET p_data == load_nifti_data(folder[submission_files[idx + 1]])
           r == compute_tpr_fpr(gt_data, p_data, mask_data)
       IN  /\ pred_data' = p_data
           /\ gt' = r.gt /\ pred' = r.pred
           /\ tp' = r.tp /\ tn' = r.tn /\ fp' = r.fp /\ fn' = r.fn
           /\ tpr' = r.tpr /\ fpr' = r.fpr
           /\ IF Discarded(r.fpr)
              THEN UNCHANGED <<tpr_list, fpr_list>>
              ELSE /\ tpr_list' = Append(tpr_list, r.tpr)
                   /\ fpr_list' = Append(fpr_list, r.fpr)
    /\ idx' = idx + 1
    /\ UNCHANGED <<pc, mask_data, gt_data, submission_files>>
    /\ UNCHANGED inputVars /\ UNCHANGED resultVars

\* lines 81-83, once the loop has run out of files
SortPoints ==
    /\ pc = "loop"
    /\ idx = Len(submission_files)
    /\ LET points == sorted_by_fpr(Zip(fpr_list, tpr_list))
       IN  /\ sorted_fprs' = fprs_of(points)
           /\ sorted_tprs' = tprs_of(points)
    /\ pc' = "auc"
    /\ UNCHANGED <<mask_data, gt_data, pred_data, submission_files, idx,
                   tpr_list, fpr_list, roc_auc, outcome>>
    /\ UNCHANGED inputVars /\ UNCHANGED evalVars

\* lines 87-88: the call of auc is reached whatever the number of points
ComputeAuc ==
    /\ pc = "auc"
    /\ LET r == auc(sorted_fprs, sorted_tprs)
       IN  /\ roc_auc' = r.value
           /\ outcome' = IF r.raised THEN "ValueError" ELSE "returned"
    /\ pc' = "done"
    /\ UNCHANGED <<mask_data, gt_data, pred_data, submission_files, idx,
                   tpr_list, fpr_list, sorted_fprs, sorted_tprs>>
    /\ UNCHANGED inputVars /\ UNCHANGED evalVars

Next == LoadInputs \/ Iterate \/ SortPoints \/ ComputeAuc

Spec == Init /\ [][Next]_vars

\* main as one function of its inputs: what a run over `files` returns
RECURSIVE Recorded(_, _, _, _)
Recorded(files, g_data, m_data, k) ==
    IF k = 0 THEN <<>>
    ELSE LET r == compute_tpr_fpr(g_data, load_nifti_data(files[k]), m_data)
             before == Recorded(files, g_data, m_data, k - 1)
         IN  IF Discarded(r.fpr) THEN before ELSE Append(before, <<r.fpr, r.tpr>>)

RunMain(m_file, g_file, files) ==
    LET points == sorted_by_fpr(Recorded(files, load_nifti_data(g_file),
                                         load_nifti_data(m_file), Len(files)))
        r == auc(fprs_of(points), tprs_of(points))
    IN  [outcome |-> IF r.raised THEN "ValueError" ELSE "returned", roc_auc |-> r.value]

(***************************************************************************)
(* Vocabulary of the properties.                                           *)
(***************************************************************************)
InUnitInterval(r) == RatLeq(Zero, r) /\ RatLeq(r, One)

Masked == {k \in DOMAIN mask_data : mask_data[k] = 1}

Binary(v) == v \in {0, 1}

\* the volume with every voxel outside the mask's selection overwritten by c
OffMaskFilled(data, c) == [k \in DOMAIN data |-> IF mask_data[k] = 1 THEN data[k] ELSE c]

\* in how many of the four counts voxel k of the masked sequences is counted
TimesCounted(k) ==
    Cardinality({S \in {"tp", "tn", "fp", "fn"} :
        \/ S = "tp" /\ k \in TPVoxels(pred, gt)
        \/ S = "tn" /\ k \in TNVoxels(pred, gt)
        \/ S = "fp" /\ k \in FPVoxels(pred, gt)
        \/ S = "fn" /\ k \in FNVoxels(pred, gt)})

Occurrences(x, s) == Cardinality({k \in DOMAIN s : s[k] = x})

SameMultiset(s, t) ==
    /\ Len(s) = Len(t)
    /\ \A k \in DOMAIN s : Occurrences(s[k], s) = Occurrences(s[k], t)

NonDecreasing(xs) == \A k \in 1..(Len(xs) - 1) : RatLeq(xs[k], xs[k + 1])

\* sum over consecutive points of (x[i+1] - x[i]) * (y[i] + y[i+1]) / 2
RECURSIVE TrapezoidArea(_, _, _)
TrapezoidArea(xs, ys, n) ==
    IF n < 2 THEN Zero
    ELSE RatAdd(TrapezoidArea(xs, ys, n - 1),
                RatHalf(RatMul(RatSub(xs[n], xs[n - 1]), RatAdd(ys[n - 1], ys[n]))))

\* the (FPR, TPR) point of every file of the folder, in listing order
CandidatePoints ==
    [k \in DOMAIN folder |->
        LET r == compute_tpr_fpr(load_nifti_data(gt_file), load_nifti_data(folder[k]),
                                 load_nifti_data(mask_file))
        IN  <<r.fpr, r.tpr>>]

WithinThreshold(p) == RatLeq(p[1], args_threshold)

FinalCurve == Zip(sorted_fprs, sorted_tprs)

RecordedPoints == Zip(fpr_list, tpr_list)

Reordered(s, f) == [k \in DOMAIN s |-> s[f[k]]]

(***************************************************************************)
(* C1: the final curve is exactly the candidates' points whose FPR is      *)
(* <= the --threshold option: none above it is kept, none within it is     *)
(* dropped.                                                                *)
(***************************************************************************)
C1_CurveIsPointsWithinThreshold ==
    pc = "done" => SameMultiset(FinalCurve, SelectSeq(CandidatePoints, WithinThreshold))

(***************************************************************************)
(* C2: with at least two surviving points main returns the trapezoidal     *)
(* area over the sorted curve, nothing added and nothing omitted.          *)
(***************************************************************************)
C2_AucIsTrapezoidArea ==
    (pc = "done" /\ Len(fpr_list) >= 2) =>
        /\ outcome = "returned"
        /\ Len(sorted_fprs) = Len(fpr_list)
        /\ roc_auc = TrapezoidArea(sorted_fprs, sorted_tprs, Len(sorted_fprs))

C2_Witness ==
    /\ pc = "done" /\ outcome = "returned"
    /\ Len(fpr_list) >= 3
    /\ \E k \in 1..(Len(fpr_list) - 1) : RatLt(fpr_list[k + 1], fpr_list[k])
    /\ RatLt(Zero, roc_auc)

(***************************************************************************)
(* C3: the returned AUC is the same for every enumeration order of the     *)
(* same candidate files.                                                   *)
(***************************************************************************)
C3_AucIgnoresFileOrder ==
    pc = "done" =>
        \A f \in Permutations(DOMAIN folder) :
            RunMain(mask_file, gt_file, Reordered(folder, f)) =
                [outcome |-> outcome, roc_auc |-> roc_auc]

(***************************************************************************)
(* C4: compute_tpr_fpr returns a TPR and an FPR in [0,1], for volumes of   *)
(* any values.                                                             *)
(***************************************************************************)
C4_RatesInUnitInterval ==
    pc = "cm_return" => InUnitInterval(tpr) /\ InUnitInterval(fpr)

C4_Witness ==
    /\ pc = "cm_return"
    /\ \E k \in Masked : ~Binary(gt_data[k]) \/ ~Binary(pred_data[k])
    /\ RatLt(Zero, tpr) /\ RatLt(tpr, One)

(***************************************************************************)
(* C5: a prediction equal to the ground truth on every masked voxel gets   *)
(* FPR = 0, and TPR = 1 when a masked ground-truth voxel is positive.      *)
(***************************************************************************)
C5_PerfectPrediction ==
    (pc = "cm_return" /\ \A k \in Masked : pred_data[k] = gt_data[k]) =>
        /\ fpr = Zero
        /\ (\E k \in Masked : gt_data[k] = 1) => tpr = One

C5_Witness ==
    /\ pc = "cm_return"
    /\ \A k \in Masked : pred_data[k] = gt_data[k]
    /\ \E k \in Masked : gt_data[k] = 1
    /\ \E k \in Masked : gt_data[k] = 0
    /\ \E k \in DOMAIN mask_data : pred_data[k] # gt_data[k]
    /\ tpr = One /\ fpr = Zero

(***************************************************************************)
(* C6: an empty mask selection gives TPR = 0 and FPR = 0; TPR is 0         *)
(* whenever TP+FN = 0 and FPR is 0 whenever FP+TN = 0.                     *)
(***************************************************************************)
C6_ZeroDenominatorGuard ==
    pc = "cm_return" =>
        /\ Masked = {} => (tpr = Zero /\ fpr = Zero)
        /\ tp + fn = 0 => tpr = Zero
        /\ fp + tn = 0 => fpr = Zero

C6_Witness ==
    /\ pc = "cm_return"
    /\ Len(mask_data) > 0 /\ Masked = {}
    /\ \E k \in DOMAIN mask_data : pred_data[k] = 1 /\ gt_data[k] = 0
    /\ tpr = Zero /\ fpr = Zero

(***************************************************************************)
(* C7: the curve handed to the integration is non-decreasing in FPR and    *)
(* is a permutation of the recorded (FPR, TPR) pairs.                      *)
(***************************************************************************)
C7_CurveSortedAndPaired ==
    pc \in {"auc", "done"} =>
        /\ NonDecreasing(sorted_fprs)
        /\ Len(sorted_fprs) = Len(fpr_list)
        /\ Len(sorted_tprs) = Len(tpr_list)
        /\ SameMultiset(FinalCurve, RecordedPoints)

C7_Witness ==
    /\ pc = "auc"
    /\ \E k \in 1..(Len(fpr_list) - 1) : RatLt(fpr_list[k + 1], fpr_list[k])
    /\ \E j, k \in DOMAIN fpr_list : fpr_list[j] = fpr_list[k] /\ tpr_list[j] # tpr_list[k]

(***************************************************************************)
(* C8: with fewer than two surviving points the integration is still       *)
(* called and the run ends in a failure, never in a returned AUC.          *)
(***************************************************************************)
C8_TooFewPointsFail ==
    /\ (pc = "auc" /\ Len(fpr_list) < 2) => ENABLED ComputeAuc
    /\ (pc = "done" /\ Len(fpr_list) < 2) => outcome = "ValueError"

C8_Witness ==
    /\ pc = "done"
    /\ Len(folder) = 2
    /\ fpr_list = <<Zero>> /\ tpr_list = <<One>>
    /\ outcome = "ValueError"

(***************************************************************************)
(* C9: the result depends only on the voxels whose mask value is exactly   *)
(* 1: whatever the ground truth and the prediction hold elsewhere, the     *)
(* returned pair is the same.  Stated against the runs whose off-mask      *)
(* voxels are overwritten by each value: two runs that agree on the mask   *)
(* have the same overwritten run, so both return what that run returns.    *)
(***************************************************************************)
C9_OnlyMaskedVoxelsMatter ==
    pc = "cm_return" =>
        \A c, d \in Vals :
            LET r == compute_tpr_fpr(OffMaskFilled(gt_data, c),
                                     OffMaskFilled(pred_data, d), mask_data)
            IN  r.tpr = tpr /\ r.fpr = fpr

C9_Witness ==
    /\ pc = "cm_return"
    /\ \E k \in DOMAIN mask_data : mask_data[k] = 2 /\ pred_data[k] = 1 /\ gt_data[k] = 0
    /\ \E k \in DOMAIN mask_data : mask_data[k] = 0 /\ pred_data[k] = 0 /\ gt_data[k] = 1
    /\ \E k \in Masked : pred_data[k] = 1 /\ gt_data[k] = 1
    /\ tpr = One /\ fpr = Zero

(***************************************************************************)
(* C10: a masked voxel is counted in at most one of TP, TN, FP, FN, in     *)
(* exactly one when its prediction and ground truth are both 0 or 1, in    *)
(* none otherwise; so TP+TN+FP+FN <= the number of masked voxels, with     *)
(* equality when every masked value is binary.                             *)
(***************************************************************************)
C10_CountsPartitionBinaryVoxels ==
    pc \in {"cm_rates", "cm_return"} =>
        /\ Len(pred) = Cardinality(Masked) /\ Len(gt) = Cardinality(Masked)
        /\ \A k \in DOMAIN pred :
              /\ TimesCounted(k) <= 1
              /\ (Binary(pred[k]) /\ Binary(gt[k])) => TimesCounted(k) = 1
              /\ ~(Binary(pred[k]) /\ Binary(gt[k])) => TimesCounted(k) = 0
        /\ tp + tn + fp + fn <= Cardinality(Masked)
        /\ (\A k \in Masked : Binary(pred_data[k]) /\ Binary(gt_data[k])) =>
              tp + tn + fp + fn = Cardinality(Masked)

C10_Witness ==
    /\ pc = "cm_return"
    /\ \E k \in Masked : ~Binary(pred_data[k])
    /\ \E k \in Masked : Binary(pred_data[k]) /\ Binary(gt_data[k])
    /\ tp + tn + fp + fn > 0
    /\ tp + tn + fp + fn < Cardinality(Masked)

====
